---- MODULE Spec2Model ----
(***************************************************************************)
(* Record Store of Shortin v3: short-URL records kept in one spreadsheet,  *)
(* one record per row, columns A..F = id, url, shortCode, createdAt,       *)
(* updatedAt, count.  The sheet is a grid of rows of six text cells; an    *)
(* empty cell is the empty string.  Every operation of the adapter is a    *)
(* composition of remote range requests (get / append / update / clear).   *)
(***************************************************************************)
EXTENDS Integers, Sequences, FiniteSets, TLC

(* ------------------------------ bounds --------------------------------- *)

\* number of grid rows of the sheet that the model keeps (row 1 included)
MaxRows == 4
\* largest clock value (Date.now()) a behaviour reaches
MaxTime == 2
\* largest visit count a behaviour reaches
MaxCount == 2
\* number of calls of the Record Store in one behaviour
MaxCalls == 4
\* number of calls begun in one behaviour of overlapping calls
MaxConcCalls == 3
\* number of calls begun in one behaviour with failing requests
MaxNetCalls == 2
\* largest code length asked of the generator
MaxLength == 2
\* largest maxAttempts given to generateUniqueShortCode
MaxAttempts == 2
\* largest alphabet size given to secureRandomInt
MaxCharset == 4
\* width of the random word in bits; the code draws 32 bits
RandomBits == 4

\* short codes given as arguments; the first one is the header text of column C
Codes == {"shortCode", "abc", "xyz"}
\* destination urls given as arguments
Urls == {"https://a", "https://b"}
\* outcomes of Math.floor(Math.random() * 10000) kept by the model
RandValues == {7}

(* --------------------------- sheet contents ---------------------------- *)

ColId == 1
ColUrl == 2
ColShortCode == 3
ColCreatedAt == 4
ColUpdatedAt == 5
ColCount == 6

EmptyRow == <<"", "", "", "", "", "">>

HeaderRow == <<"id", "url", "shortCode", "createdAt", "updatedAt", "count">>

\* the value of a failed lookup (JavaScript null)
Null == [null |-> TRUE]

\* Number(x) of a text that is not a numeral
NaN == -1

RowIsEmpty(row) == \A k \in 1..6 : row[k] = ""

\* the last grid row that has a value in one of the columns of cols, 0 if none
LastPopulated(s, cols) ==
  LET used == {i \in 1..Len(s) : \E k \in cols : s[i][k] # ""}
  IN IF used = {} THEN 0 ELSE CHOOSE i \in used : \A j \in used : j <= i

\* a row as the values API returns it: trailing empty cells are omitted
TrimRow(row, cols) ==
  LET used == {k \in cols : row[k] # ""}
      hi == IF used = {} THEN 0 ELSE CHOOSE k \in used : \A j \in used : j <= k
      lo == CHOOSE k \in cols : \A j \in cols : k <= j
  IN [n \in 1..(IF hi = 0 THEN 0 ELSE hi - lo + 1) |-> row[lo + n - 1]]

\* GET values/<range>: the rows of the range down to the last populated one
getValues(s, firstRow, lastRow, cols) ==
  LET hi == LastPopulated(s, cols)
      top == IF hi < lastRow THEN hi ELSE lastRow
  IN [n \in 1..(IF top < firstRow THEN 0 ELSE top - firstRow + 1) |->
        TrimRow(s[firstRow + n - 1], cols)]

\* an append that writes onto the last populated row instead of below it
appendValues_OntoLastRow(s, row) ==
  [s EXCEPT ![IF LastPopulated(s, 1..6) = 0 THEN 1 ELSE LastPopulated(s, 1..6)] = row]

\* POST values/Sheet1!A:F:append: the row goes below the last populated row
appendValues(s, row) ==
  [s EXCEPT ![LastPopulated(s, 1..6) + 1] = row]

\* a JSON value of a request body: null, or a text / number shown as text
JsonNull == [null |-> TRUE]

JsonText(text) == [null |-> FALSE, text |-> text]

\* PUT values/Sheet1!<col><rowIndex>: a null value leaves the cell as it is
updateValues(s, col, rowIndex, v) ==
  IF v.null THEN s ELSE [s EXCEPT ![rowIndex][col] = v.text]

\* POST values/Sheet1!A<rowIndex>:F<rowIndex>:clear
clearRange(s, rowIndex) ==
  [s EXCEPT ![rowIndex] = EmptyRow]

(* ---------------------------- conversions ------------------------------ *)

\* new Date().toISOString() at clock value t
toISOString(t) == "T" \o ToString(t)

\* Number(text) for the texts a count cell can hold
Number(text) ==
  IF text = "" THEN 0
  ELSE IF \E n \in 0..(2 * MaxCount + 1) : ToString(n) = text
       THEN CHOOSE n \in 0..(2 * MaxCount + 1) : ToString(n) = text
       ELSE NaN

\* the JSON value written for a number: NaN is serialised as null
JsonNumber(n) == IF n = NaN THEN JsonNull ELSE JsonText(ToString(n))

(* ------------------------------ lookups -------------------------------- *)

RECURSIVE Flat(_)
Flat(rows) == IF rows = <<>> THEN <<>> ELSE Head(rows) \o Flat(Tail(rows))

getAllShortCodes(s) ==
  SelectSeq(Flat(getValues(s, 1, Len(s), {ColShortCode})), LAMBDA v : v # "")

Includes(seq, x) == \E i \in 1..Len(seq) : seq[i] = x

\* Array.prototype.indexOf: 0-based position of the first match, -1 if none
IndexOf(seq, x) ==
  IF Includes(seq, x)
  THEN (CHOOSE i \in 1..Len(seq) : seq[i] = x /\ \A j \in 1..(i - 1) : seq[j] # x) - 1
  ELSE -1

findRowIndexByShortCode(s, shortCode) ==
  LET codes == getAllShortCodes(s)
      idx == IndexOf(codes, shortCode)
  IN IF idx = -1 THEN 0 ELSE idx + 1

readRowAsRecord(s, rowIndex) ==
  LET values == getValues(s, rowIndex, rowIndex, 1..6)
  IN IF Len(values) = 0 THEN Null
     ELSE LET row == values[1]
          IN IF Len(row) < 6 \/ (\A k \in 1..Len(row) : row[k] = "") THEN Null
             ELSE [id |-> row[1], url |-> row[2], shortCode |-> row[3],
                   createdAt |-> row[4], updatedAt |-> row[5],
                   count |-> Number(row[6])]

(* ------------------------------ builders ------------------------------- *)

generateRecordId(t, rand) == "id_" \o ToString(t) \o "_" \o ToString(rand)

buildShortUrlRecord(url, shortCode, t, rand) ==
  [id |-> generateRecordId(t, rand), url |-> url, shortCode |-> shortCode,
   createdAt |-> toISOString(t), updatedAt |-> toISOString(t), count |-> 0]

\* the row of a record, with a count of 0 sent as an empty cell
RecordRow_ZeroAsEmpty(record) ==
  <<record.id, record.url, record.shortCode, record.createdAt,
    record.updatedAt, IF record.count = 0 THEN "" ELSE JsonNumber(record.count).text>>

\* the six values createShortUrl hands to appendValues
RecordRow(record) ==
  <<record.id, record.url, record.shortCode, record.createdAt,
    record.updatedAt, JsonNumber(record.count).text>>

(* --------------------- operations of the Record Store ------------------ *)
\* Each operator is one whole call with no other call overlapping it:
\* the sheet it leaves (sheet), how it ended (res) and what it returned (val).

Result(s, res, val) == [sheet |-> s, res |-> res, val |-> val]

\* createShortUrl with the append sent before the uniqueness check is made
createShortUrl_AppendThenCheck(s, record) ==
  LET existing == getAllShortCodes(s)
  IN IF Includes(existing, record.shortCode)
     THEN Result(appendValues(s, RecordRow(record)), "ConflictError", Null)
     ELSE Result(appendValues(s, RecordRow(record)), "ok", record)

\* createShortUrl without the uniqueness check
createShortUrl_NoPreCheck(s, record) ==
  Result(appendValues(s, RecordRow(record)), "ok", record)

createShortUrl(s, record) ==
  LET existing == getAllShortCodes(s)
  IN IF Includes(existing, record.shortCode)
     THEN Result(s, "ConflictError", Null)
     ELSE Result(appendValues(s, RecordRow(record)), "ok", record)

deleteShortUrl(s, shortCode) ==
  LET rowIndex == findRowIndexByShortCode(s, shortCode)
  IN IF rowIndex = 0 THEN Result(s, "NotFoundError", Null)
     ELSE Result(clearRange(s, rowIndex), "ok", Null)

updateDestination(s, shortCode, newUrl, t) ==
  LET rowIndex == findRowIndexByShortCode(s, shortCode)
  IN IF rowIndex = 0 THEN Result(s, "NotFoundError", Null)
     ELSE Result(updateValues(updateValues(s, ColUrl, rowIndex, JsonText(newUrl)),
                              ColUpdatedAt, rowIndex, JsonText(toISOString(t))),
                 "ok", Null)

\* a counter that wraps round to 0 instead of growing
NextCount_Wraps(count) == IF count = NaN THEN NaN ELSE (count + 1) % 2

\* record.count + 1: NaN + 1 is NaN
NextCount(count) == IF count = NaN THEN NaN ELSE count + 1

resolveAndIncrement(s, shortCode) ==
  LET rowIndex == findRowIndexByShortCode(s, shortCode)
  IN IF rowIndex = 0 THEN Result(s, "NotFoundError", Null)
     ELSE LET record == readRowAsRecord(s, rowIndex)
          IN IF record = Null THEN Result(s, "NotFoundError", Null)
             ELSE LET newCount == NextCount(record.count)
                  IN Result(updateValues(s, ColCount, rowIndex, JsonNumber(newCount)),
                            "ok", record.url)

getStats(s, shortCode) ==
  LET rowIndex == findRowIndexByShortCode(s, shortCode)
  IN IF rowIndex = 0 THEN Result(s, "NotFoundError", Null)
     ELSE LET record == readRowAsRecord(s, rowIndex)
          IN IF record = Null THEN Result(s, "NotFoundError", Null)
             ELSE Result(s, "ok", record.count)

getRecord(s, shortCode) ==
  LET rowIndex == findRowIndexByShortCode(s, shortCode)
  IN IF rowIndex = 0 THEN Result(s, "NotFoundError", Null)
     ELSE LET record == readRowAsRecord(s, rowIndex)
          IN IF record = Null THEN Result(s, "NotFoundError", Null)
             ELSE Result(s, "ok", record)

\* throws ConflictError if codes.includes(shortCode)
assertShortCodeAvailable(s, shortCode) ==
  IF Includes(getAllShortCodes(s), shortCode)
  THEN Result(s, "ConflictError", Null)
  ELSE Result(s, "ok", Null)

(* ----------------------- Context-based adapter ------------------------- *)
\* The adapter the /api router imports: it reads the whole range A:F and
\* parses rows, where the other adapter reads column C.

\* Number.parseInt(count || '0', 10) || 0
ParseIntOrZero(text) ==
  IF text = "" \/ Number(text) = NaN THEN 0 ELSE Number(text)

\* values[k] ?? '' for a row the values API returned (0-based k)
CellOr(values, k, default) ==
  IF k + 1 <= Len(values) THEN values[k + 1] ELSE default

parseRow(values) ==
  IF Len(values) < 3 THEN Null
  ELSE LET id == CellOr(values, 0, "")
           url == CellOr(values, 1, "")
           shortCode == CellOr(values, 2, "")
       IN IF id = "" \/ url = "" \/ shortCode = "" THEN Null
          ELSE [id |-> id, url |-> url, shortCode |-> shortCode,
                createdAt |-> CellOr(values, 3, ""),
                updatedAt |-> CellOr(values, 4, ""),
                count |-> ParseIntOrZero(CellOr(values, 5, "0"))]

\* for (const v of dataRows) { const r = parseRow(v); if (r) rows.push(r) }
RECURSIVE ParsedRows(_)
ParsedRows(dataRows) ==
  IF dataRows = <<>> THEN <<>>
  ELSE LET r == parseRow(Head(dataRows))
       IN (IF r = Null THEN <<>> ELSE <<r>>) \o ParsedRows(Tail(dataRows))

\* values.slice(headerOffset)
Slice(values, start) ==
  [n \in 1..(IF Len(values) > start THEN Len(values) - start ELSE 0) |->
     values[start + n]]

\* a listing that parses the first row of the range like any other
listAllRows_NoHeaderOffset(s) ==
  LET values == getValues(s, 1, Len(s), 1..6)
  IN [rows |-> ParsedRows(values), raw |-> values, offset |-> 0]

listAllRows(s) ==
  LET values == getValues(s, 1, Len(s), 1..6)
      headerOffset == 1
  IN [rows |-> ParsedRows(Slice(values, headerOffset)), raw |-> values,
      offset |-> headerOffset]

\* the first index i (0-based) with rows[i].shortCode = shortCode, or -1
RECURSIVE FirstWithCode(_, _, _)
FirstWithCode(rows, shortCode, i) ==
  IF i >= Len(rows) THEN -1
  ELSE IF rows[i + 1].shortCode = shortCode THEN i
  ELSE FirstWithCode(rows, shortCode, i + 1)

\* findByShortCode: found is whether a row was returned ({} otherwise)
findByShortCode(s, shortCode) ==
  LET all == listAllRows(s)
      i == FirstWithCode(all.rows, shortCode, 0)
  IN IF i = -1
     THEN [found |-> FALSE, row |-> Null, rowNumber |-> 0]
     ELSE [found |-> TRUE, row |-> all.rows[i + 1], rowNumber |-> all.offset + i + 1]

\* POST values/<sheet>!A<rowNumber>:F<rowNumber>:clear
clearRow(s, rowNumber) == clearRange(s, rowNumber)

\* a Partial<ShortUrlRow>: a field is <<>> when absent and <<v>> when given
NoData ==
  [id |-> <<>>, url |-> <<>>, shortCode |-> <<>>, createdAt |-> <<>>,
   updatedAt |-> <<>>, count |-> <<>>]

\* data.x ?? current[k] ?? default
Merged(given, current, k, default) ==
  IF given # <<>> THEN given[1] ELSE CellOr(current, k, default)

\* PUT values/<sheet>!A<rowNumber>:F<rowNumber> with one row of six texts:
\* every cell of the row takes the text sent, and "" empties it
putRow(s, rowNumber, merged) ==
  [s EXCEPT ![rowNumber] = merged]

\* updateRow: resGetOk and resOk are whether the read of the row and the
\* write of the merged row are answered 2xx
updateRow(s, rowNumber, data, resGetOk, resOk) ==
  LET values == getValues(s, rowNumber, rowNumber, 1..6)
      current == IF resGetOk /\ Len(values) >= 1 THEN values[1] ELSE <<>>
      merged == <<Merged(data.id, current, 0, ""),
                  Merged(data.url, current, 1, ""),
                  Merged(data.shortCode, current, 2, ""),
                  Merged(data.createdAt, current, 3, ""),
                  Merged(data.updatedAt, current, 4, ""),
                  IF data.count # <<>>
                  THEN JsonNumber(data.count[1]).text
                  ELSE CellOr(current, 5, "0")>>
  IN IF resOk
     THEN Result(putRow(s, rowNumber, merged), "ok", Null)
     ELSE Result(s, "Error", Null)

(* ------------------------------- handlers ------------------------------ *)
\* A response: the sheet the handler leaves, the status, the error text of
\* an error body, the record or url of a JSON body, the Location header.

Response(s, status, error, record, url) ==
  [sheet |-> s, status |-> status, error |-> error, record |-> record,
   url |-> url, location |-> ""]

\* POST /shorten with a body that carries shortCodeInput
postShorten(s, url, shortCodeInput, t, rand) ==
  IF assertShortCodeAvailable(s, shortCodeInput).res = "ConflictError"
  THEN Response(s, 400, "Short code already in use", Null, "")
  ELSE LET record == buildShortUrlRecord(url, shortCodeInput, t, rand)
           created == createShortUrl(s, record)
       IN IF created.res = "ConflictError"
          THEN Response(s, 400, "Short code already in use", Null, "")
          ELSE Response(created.sheet, 201, "", created.val, "")

\* GET /:shortCodeInput
getShortCode(s, shortCodeInput) ==
  IF shortCodeInput = ""
  THEN Response(s, 400, "Short code is required", Null, "")
  ELSE IF shortCodeInput = "shorten"
  THEN Response(s, 404, "404 Not Found", Null, "")
  ELSE LET r == resolveAndIncrement(s, shortCodeInput)
       IN IF r.res = "ok" THEN Response(r.sheet, 200, "", Null, r.val)
          ELSE Response(r.sheet, 404, "Short code not found", Null, "")

(* ------------------------------- state --------------------------------- *)

VARIABLES
  sheet,   \* the grid of Sheet1: sheet[i] is row i, a tuple of six cells
  now,     \* the clock, Date.now()
  calls,   \* number of calls begun so far
  last,    \* the call that ended last: its name, its short code, its outcome
  proc,    \* overlapping calls: where each request handler stands, its locals
  net,     \* the transport: token cache, requests sent by the running call
  gen      \* the code generator: the running call of lib/shortcode, its locals

vars == <<sheet, now, calls, last, proc, net, gen>>

\* the request handlers that can run at the same time
Procs == {1, 2}

IdleProc ==
  [pc |-> "idle", op |-> "none", record |-> Null, existing |-> <<>>, res |-> "none",
   code |-> "", url |-> "", rowIndex |-> 0, val |-> Null,
   env |-> TRUE, generated |-> FALSE, attempts |-> 0, checks |-> 0, failures |-> 0]

\* no call of the code generator is running
IdleGen ==
  [pc |-> "idle", fn |-> "none", length |-> 0, charset |-> <<>>,
   maxAttempts |-> 0, attempt |-> 0, candidate |-> "", checks |-> 0,
   takenReports |-> 0, randoms |-> 0, deterministic |-> "",
   detReport |-> "none", res |-> "none", val |-> "",
   exists |-> FALSE, n |-> 0, crypto |-> FALSE, limit |-> 0, word |-> 0,
   integer |-> TRUE, out |-> <<>>, redrawn |-> FALSE]

\* the transport with every request answered 2xx and a token always at hand
NetOff ==
  [on |-> FALSE,
   phase |-> [p \in Procs |-> "token"],
   start |-> [p \in Procs |-> 0],
   pending |-> [p \in Procs |-> Null],
   token |-> [p \in Procs |-> Null],
   cache |-> Null,
   log |-> [p \in Procs |-> <<>>]]

Init ==
  /\ sheet = [i \in 1..MaxRows |-> IF i = 1 THEN HeaderRow ELSE EmptyRow]
  /\ now = 1
  /\ calls = 0
  /\ last = [op |-> "none", code |-> "", res |-> "ok"]
  /\ proc = [p \in Procs |-> IdleProc]
  /\ net = NetOff
  /\ gen = IdleGen

\* the clock readings a call can see: time does not go back
Clock == {t \in now..MaxTime : t <= now + 1}

\* the model keeps counts up to MaxCount
CountsBounded(s) ==
  \A i \in 1..Len(s) : Number(s[i][ColCount]) <= MaxCount

\* the model keeps MaxRows grid rows: an append needs a row below the data
RoomToAppend(s) == LastPopulated(s, 1..6) < MaxRows

Ended(op, code, r) ==
  /\ calls < MaxCalls
  /\ calls' = calls + 1
  /\ sheet' = r.sheet
  /\ last' = [op |-> op, code |-> code, res |-> r.res]
  /\ UNCHANGED <<proc, net, gen>>

Create ==
  \E url \in Urls, code \in Codes, t \in Clock, rand \in RandValues :
    /\ RoomToAppend(sheet)
    /\ now' = t
    /\ Ended("createShortUrl", code,
             createShortUrl(sheet, buildShortUrlRecord(url, code, t, rand)))

Delete ==
  \E code \in Codes :
    /\ now' = now
    /\ Ended("deleteShortUrl", code, deleteShortUrl(sheet, code))

Update ==
  \E code \in Codes, newUrl \in Urls, t \in Clock :
    /\ now' = t
    /\ Ended("updateDestination", code,
             updateDestination(sheet, code, newUrl, t))

Resolve ==
  \E code \in Codes :
    LET r == resolveAndIncrement(sheet, code)
    IN /\ CountsBounded(r.sheet)
       /\ now' = now
       /\ Ended("resolveAndIncrement", code, r)

Stats ==
  \E code \in Codes :
    /\ now' = now
    /\ Ended("getStats", code, getStats(sheet, code))

Get ==
  \E code \in Codes :
    /\ now' = now
    /\ Ended("getRecord", code, getRecord(sheet, code))

Next == Create \/ Delete \/ Update \/ Resolve \/ Stats \/ Get

Spec == Init /\ [][Next]_vars

(* ------------------------------ transport ------------------------------ *)
\* sheetsFetch: getAccessToken, then one fetch; a response that is not ok
\* throws.  net.on says whether responses other than 2xx are modelled.

TokenMargin == 60
DefaultExpiresIn == 3600

\* resp.ok
Ok(status) == status \in 200..299

\* answers of the token endpoint to an exchange at time t: the body of a 200
\* is the access_token it issues, written as the time of issue and the
\* lifetime the endpoint gives it, and expires_in is <<>> when the field is
\* absent (the lifetime is then the endpoint's default of an hour)
TokenResponses(t) ==
  {[status |-> 200,
    body |-> [at |-> t, life |-> IF e = <<>> THEN DefaultExpiresIn ELSE e[1]],
    expires_in |-> e] :
     e \in {<<>>, <<60>>, <<61>>}}
  \cup {[status |-> 401, body |-> "invalid_grant", expires_in |-> <<>>]}

\* answers of the spreadsheet API that are not ok
SheetFailures ==
  {[status |-> 429, body |-> "rateLimitExceeded"],
   [status |-> 500, body |-> "backendError"]}

\* typeof tokenJson.expires_in === "number" ? tokenJson.expires_in : 3600
ExpiresInOf(resp) ==
  IF resp.expires_in = <<>> THEN DefaultExpiresIn ELSE resp.expires_in[1]

\* tokenCache && tokenCache.exp - 60 > now, with the margin off by one
TokenFresh_AtMargin(cache, t) ==
  IF cache = Null THEN FALSE ELSE cache.exp - TokenMargin >= t

\* tokenCache && tokenCache.exp - 60 > now
TokenFresh(cache, t) ==
  IF cache = Null THEN FALSE ELSE cache.exp - TokenMargin > t

\* the positions of a call at which its next step is a spreadsheet request
RequestPcs ==
  {"assert", "scan", "append", "lookup", "readRow", "writeCount", "writeUrl",
   "writeUpdatedAt", "clear"}

\* validateEnv comes first in every operation: with a variable missing no
\* request is made
AtRequest(p) == net.on /\ proc[p].pc \in RequestPcs /\ proc[p].env

\* the locals of call c after an operation of it threw: the handler of POST
\* /shorten catches whatever assertShortCodeAvailable throws for a generated
\* candidate and counts an attempt; everywhere else the call ends with the
\* error
Thrown(c, res, val) ==
  IF c.op = "postShorten" /\ c.pc = "assert" /\ c.generated
  THEN [c EXCEPT !.pc = "loop", !.attempts = @ + 1,
                 !.failures = IF res = "ConflictError" THEN @ ELSE @ + 1]
  ELSE [c EXCEPT !.pc = "done", !.res = res, !.val = val]

\* a request of the call that was sent, and how it was answered
Sent(kind, at, status, body) ==
  [kind |-> kind, at |-> at, status |-> status, body |-> body]

\* the Error thrown for a response that is not ok
ErrorOf(message, resp) ==
  [message |-> message, status |-> resp.status, body |-> resp.body]

\* the number of calls a behaviour may begin
CallBudget == IF net.on THEN MaxNetCalls ELSE MaxConcCalls

\* a call of an operation begins: it has sent nothing yet
Begun(p) ==
  net' = IF net.on
         THEN [net EXCEPT !.phase[p] = "token", !.token[p] = Null, !.log[p] = <<>>]
         ELSE net

\* the fetch of sheetsFetch, answered 2xx
Passed(p) ==
  IF net.on
  THEN /\ net.phase[p] = "fetch"
       /\ net' = [net EXCEPT !.phase[p] = "token",
                             !.log[p] = Append(@, Sent("sheet", proc[p].pc, 200, "json"))]
  ELSE UNCHANGED net

\* getAccessToken returns the cached token without a request
TokenCached(p) ==
  \E t \in Clock :
    /\ AtRequest(p)
    /\ net.phase[p] = "token"
    /\ TokenFresh(net.cache, t)
    /\ now' = t
    /\ net' = [net EXCEPT !.phase[p] = "fetch", !.token[p] = net.cache.token]
    /\ UNCHANGED <<sheet, calls, last, proc, gen>>

\* getAccessToken reads the time, finds no usable token and posts the signed
\* assertion; the endpoint issues a token or refuses
TokenRequest(p) ==
  \E t \in Clock :
    \E resp \in TokenResponses(t) :
      /\ AtRequest(p)
      /\ net.phase[p] = "token"
      /\ ~TokenFresh(net.cache, t)
      /\ now' = t
      /\ net' = [net EXCEPT
                   !.phase[p] = "exchange",
                   !.start[p] = t,
                   !.pending[p] = resp]
      /\ UNCHANGED <<sheet, calls, last, proc, gen>>

\* the pair getAccessToken caches, with the time read after the exchange
CachedPair_FromArrival(resp, start, arrival) ==
  [token |-> resp.body, exp |-> arrival + ExpiresInOf(resp)]

\* tokenCache = { token: tokenJson.access_token, exp: now + expiresIn }
CachedPair(resp, start, arrival) ==
  [token |-> resp.body, exp |-> start + ExpiresInOf(resp)]

\* the cache after an exchange that failed, were the failure to drop it
CacheAfterFailure_Dropped(cache) == Null

\* the throw of a failed exchange comes before any assignment to tokenCache
CacheAfterFailure(cache) == cache

\* the answer of the token endpoint arrives
TokenResponse(p) ==
  \E t \in Clock :
    /\ net.on
    /\ net.phase[p] = "exchange"
    /\ now' = t
    /\ LET resp == net.pending[p] IN
         IF Ok(resp.status)
         THEN /\ net' = [net EXCEPT
                           !.phase[p] = "fetch",
                           !.start[p] = 0,
                           !.pending[p] = Null,
                           !.token[p] = resp.body,
                           !.cache = CachedPair(resp, net.start[p], t),
                           !.log[p] = Append(@, Sent("token", proc[p].pc,
                                                     resp.status, resp.body))]
              /\ UNCHANGED proc
         ELSE /\ net' = [net EXCEPT
                           !.phase[p] = "token",
                           !.start[p] = 0,
                           !.pending[p] = Null,
                           !.cache = CacheAfterFailure(@),
                           !.log[p] = Append(@, Sent("token", proc[p].pc,
                                                     resp.status, resp.body))]
              /\ proc' = [proc EXCEPT ![p] =
                            Thrown(@, "Error",
                                   ErrorOf("Failed to obtain access token", resp))]
    /\ UNCHANGED <<sheet, calls, last, gen>>

\* a fetch that fails and is sent again by the same call
FetchFails_Retries(p) ==
  \E resp \in SheetFailures :
    /\ AtRequest(p)
    /\ net.phase[p] = "fetch"
    /\ net' = [net EXCEPT
                 !.phase[p] = "token",
                 !.log[p] = Append(@, Sent("sheet", proc[p].pc, resp.status, resp.body))]
    /\ Len(net.log[p]) < 4
    /\ UNCHANGED <<sheet, now, calls, last, proc, gen>>

\* the fetch of sheetsFetch, answered with a status that is not ok
FetchFails(p) ==
  \E resp \in SheetFailures :
    /\ AtRequest(p)
    /\ net.phase[p] = "fetch"
    /\ net' = [net EXCEPT
                 !.phase[p] = "token",
                 !.log[p] = Append(@, Sent("sheet", proc[p].pc, resp.status, resp.body))]
    /\ proc' = [proc EXCEPT ![p] =
                  Thrown(@, "Error", ErrorOf("Sheets API error", resp))]
    /\ UNCHANGED <<sheet, now, calls, last, gen>>

(* --------------------------- overlapping calls ------------------------- *)
\* Each await of a call is one step: a remote request is served atomically
\* by the spreadsheet, and other handlers run between two requests.

\* the codes the overlapping requests carry
ConcCodes == {"abc", "xyz"}

\* POST /shorten builds the record and calls createShortUrl
BeginCreate(p) ==
  \E url \in Urls, code \in ConcCodes, t \in Clock, rand \in RandValues :
    /\ proc[p].pc \in {"idle", "done"}
    /\ calls < CallBudget
    /\ calls' = calls + 1
    /\ now' = t
    /\ proc' = [proc EXCEPT ![p] =
                  [IdleProc EXCEPT
                     !.pc = "scan", !.op = "createShortUrl",
                     !.record = buildShortUrlRecord(url, code, t, rand),
                     !.code = code, !.url = url, !.res = "pending"]]
    /\ Begun(p)
    /\ UNCHANGED <<sheet, last, gen>>

\* createShortUrl: read the code column, throw ConflictError if code is there
CreateScan(p) ==
  /\ proc[p].pc = "scan"
  /\ proc[p].op \in {"createShortUrl", "postShorten"}
  /\ LET existing == getAllShortCodes(sheet)
     IN proc' = [proc EXCEPT ![p] =
                   IF Includes(existing, proc[p].record.shortCode)
                   THEN [@ EXCEPT !.pc = "done", !.existing = existing,
                                  !.res = "ConflictError"]
                   ELSE [@ EXCEPT !.pc = "append", !.existing = existing]]
  /\ Passed(p)
  /\ UNCHANGED <<sheet, now, calls, last, gen>>

\* createShortUrl: append the row and return the record
CreateAppend(p) ==
  /\ proc[p].pc = "append"
  /\ RoomToAppend(sheet)
  /\ sheet' = appendValues(sheet, RecordRow(proc[p].record))
  /\ proc' = [proc EXCEPT ![p] = [@ EXCEPT !.pc = "done", !.res = "ok"]]
  /\ Passed(p)
  /\ UNCHANGED <<now, calls, last, gen>>

\* GET /:shortCodeInput calls resolveAndIncrement
BeginResolve(p) ==
  \E code \in ConcCodes :
    /\ proc[p].pc \in {"idle", "done"}
    /\ calls < CallBudget
    /\ calls' = calls + 1
    /\ proc' = [proc EXCEPT ![p] =
                  [IdleProc EXCEPT !.pc = "lookup", !.op = "resolveAndIncrement",
                                   !.code = code, !.res = "pending"]]
    /\ Begun(p)
    /\ UNCHANGED <<sheet, now, last, gen>>

\* PUT /shorten/:shortCodeInput calls updateDestination
BeginUpdate(p) ==
  \E code \in ConcCodes, newUrl \in Urls :
    /\ proc[p].pc \in {"idle", "done"}
    /\ calls < CallBudget
    /\ calls' = calls + 1
    /\ proc' = [proc EXCEPT ![p] =
                  [IdleProc EXCEPT !.pc = "lookup", !.op = "updateDestination",
                                   !.code = code, !.url = newUrl, !.res = "pending"]]
    /\ Begun(p)
    /\ UNCHANGED <<sheet, now, last, gen>>

\* DELETE /shorten/:shortCodeInput calls deleteShortUrl
BeginDelete(p) ==
  \E code \in ConcCodes :
    /\ proc[p].pc \in {"idle", "done"}
    /\ calls < CallBudget
    /\ calls' = calls + 1
    /\ proc' = [proc EXCEPT ![p] =
                  [IdleProc EXCEPT !.pc = "lookup", !.op = "deleteShortUrl",
                                   !.code = code, !.res = "pending"]]
    /\ Begun(p)
    /\ UNCHANGED <<sheet, now, last, gen>>

\* GET /shorten/:shortCodeInput/stats calls getStats
BeginStats(p) ==
  \E code \in ConcCodes :
    /\ proc[p].pc \in {"idle", "done"}
    /\ calls < CallBudget
    /\ calls' = calls + 1
    /\ proc' = [proc EXCEPT ![p] =
                  [IdleProc EXCEPT !.pc = "lookup", !.op = "getStats",
                                   !.code = code, !.res = "pending"]]
    /\ Begun(p)
    /\ UNCHANGED <<sheet, now, last, gen>>

\* getRecord, the lookup of one record by its code
BeginGet(p) ==
  \E code \in ConcCodes :
    /\ proc[p].pc \in {"idle", "done"}
    /\ calls < CallBudget
    /\ calls' = calls + 1
    /\ proc' = [proc EXCEPT ![p] =
                  [IdleProc EXCEPT !.pc = "lookup", !.op = "getRecord",
                                   !.code = code, !.res = "pending"]]
    /\ Begun(p)
    /\ UNCHANGED <<sheet, now, last, gen>>

\* findRowIndexByShortCode, then throw NotFoundError if there is no row index
Lookup(p) ==
  /\ proc[p].pc = "lookup"
  /\ LET rowIndex == findRowIndexByShortCode(sheet, proc[p].code)
     IN proc' = [proc EXCEPT ![p] =
                   IF rowIndex = 0
                   THEN [@ EXCEPT !.pc = "done", !.res = "NotFoundError"]
                   ELSE [@ EXCEPT !.rowIndex = rowIndex,
                                  !.pc = CASE proc[p].op = "updateDestination"
                                                -> "writeUrl"
                                           [] proc[p].op = "deleteShortUrl"
                                                -> "clear"
                                           [] OTHER -> "readRow"]]
  /\ Passed(p)
  /\ UNCHANGED <<sheet, now, calls, last, gen>>

\* readRowAsRecord, then throw NotFoundError if the row is empty
ReadRow(p) ==
  /\ proc[p].pc = "readRow"
  /\ LET record == readRowAsRecord(sheet, proc[p].rowIndex)
     IN proc' = [proc EXCEPT ![p] =
                   IF record = Null
                   THEN [@ EXCEPT !.pc = "done", !.res = "NotFoundError"]
                   ELSE IF proc[p].op = "resolveAndIncrement"
                   THEN [@ EXCEPT !.record = record, !.pc = "writeCount"]
                   ELSE [@ EXCEPT !.record = record, !.pc = "done", !.res = "ok",
                                  !.val = IF proc[p].op = "getStats"
                                          THEN [count |-> record.count]
                                          ELSE record]]
  /\ Passed(p)
  /\ UNCHANGED <<sheet, now, calls, last, gen>>

\* a write that adds 1 to the count the cell holds at the time of the write
WriteCount_OnCurrentCell(p) ==
  /\ proc[p].pc = "writeCount"
  /\ sheet' = updateValues(sheet, ColCount, proc[p].rowIndex,
                           JsonNumber(NextCount(Number(sheet[proc[p].rowIndex][ColCount]))))
  /\ CountsBounded(sheet')
  /\ proc' = [proc EXCEPT ![p] =
                [@ EXCEPT !.pc = "done", !.res = "ok", !.val = proc[p].record.url]]
  /\ Passed(p)
  /\ UNCHANGED <<now, calls, last, gen>>

\* resolveAndIncrement: write record.count + 1 into column F, return the url
WriteCount(p) ==
  /\ proc[p].pc = "writeCount"
  /\ sheet' = updateValues(sheet, ColCount, proc[p].rowIndex,
                           JsonNumber(NextCount(proc[p].record.count)))
  /\ CountsBounded(sheet')
  /\ proc' = [proc EXCEPT ![p] =
                [@ EXCEPT !.pc = "done", !.res = "ok", !.val = proc[p].record.url]]
  /\ Passed(p)
  /\ UNCHANGED <<now, calls, last, gen>>

\* updateDestination: write the new url into column B
WriteUrl(p) ==
  /\ proc[p].pc = "writeUrl"
  /\ sheet' = updateValues(sheet, ColUrl, proc[p].rowIndex, JsonText(proc[p].url))
  /\ proc' = [proc EXCEPT ![p] = [@ EXCEPT !.pc = "writeUpdatedAt"]]
  /\ Passed(p)
  /\ UNCHANGED <<now, calls, last, gen>>

\* updateDestination: write the time of this moment into column E
WriteUpdatedAt(p) ==
  \E t \in Clock :
    /\ proc[p].pc = "writeUpdatedAt"
    /\ now' = t
    /\ sheet' = updateValues(sheet, ColUpdatedAt, proc[p].rowIndex,
                             JsonText(toISOString(t)))
    /\ proc' = [proc EXCEPT ![p] = [@ EXCEPT !.pc = "done", !.res = "ok"]]
    /\ Passed(p)
    /\ UNCHANGED <<calls, last, gen>>

NextConc ==
  \E p \in Procs :
    \/ BeginCreate(p) \/ CreateScan(p) \/ CreateAppend(p)
    \/ BeginResolve(p) \/ BeginUpdate(p) \/ Lookup(p) \/ ReadRow(p)
    \/ WriteCount(p) \/ WriteUrl(p) \/ WriteUpdatedAt(p)

SpecConc == Init /\ [][NextConc]_vars

\* overlapping calls on a sheet that already holds one record, as left by
\* createShortUrl(buildShortUrlRecord("https://a", "abc", 1, 7)) on the new sheet
InitRace ==
  /\ sheet = createShortUrl([r \in 1..MaxRows |-> IF r = 1 THEN HeaderRow ELSE EmptyRow],
                            buildShortUrlRecord("https://a", "abc", 1, 7)).sheet
  /\ now = 1
  /\ calls = 0
  /\ last = [op |-> "createShortUrl", code |-> "abc", res |-> "ok"]
  /\ proc = [p \in Procs |-> IdleProc]
  /\ net = NetOff
  /\ gen = IdleGen

SpecRace == InitRace /\ [][NextConc]_vars

(* ------------------- one call at a time, requests failing -------------- *)

\* deleteShortUrl: clear the six cells of the row
Clear(p) ==
  /\ proc[p].pc = "clear"
  /\ sheet' = clearRange(sheet, proc[p].rowIndex)
  /\ proc' = [proc EXCEPT ![p] = [@ EXCEPT !.pc = "done", !.res = "ok"]]
  /\ Passed(p)
  /\ UNCHANGED <<now, calls, last, gen>>

\* a worker that has no token yet finds one of these sheets
\* the sheets a call finds: the one left by createShortUrl of abc on the new
\* sheet, and the one left by createShortUrl of abc, createShortUrl of xyz
\* and deleteShortUrl of abc, where xyz sits below a cleared row
NetSheets ==
  LET blank == [r \in 1..MaxRows |-> IF r = 1 THEN HeaderRow ELSE EmptyRow]
      one == createShortUrl(blank, buildShortUrlRecord("https://a", "abc", 1, 7)).sheet
      two == createShortUrl(one, buildShortUrlRecord("https://b", "xyz", 1, 7)).sheet
  IN {one, deleteShortUrl(two, "abc").sheet}

InitNet ==
  /\ sheet \in NetSheets
  /\ now = 1
  /\ calls = 0
  /\ last = IF RowIsEmpty(sheet[2])
            THEN [op |-> "deleteShortUrl", code |-> "abc", res |-> "ok"]
            ELSE [op |-> "createShortUrl", code |-> "abc", res |-> "ok"]
  /\ proc = [p \in Procs |-> IdleProc]
  /\ net = [NetOff EXCEPT !.on = TRUE]
  /\ gen = IdleGen

NextNet ==
  \/ BeginCreate(1) \/ BeginResolve(1) \/ BeginUpdate(1)
  \/ BeginDelete(1) \/ BeginStats(1) \/ BeginGet(1)
  \/ TokenCached(1) \/ TokenRequest(1) \/ TokenResponse(1) \/ FetchFails(1)
  \/ CreateScan(1) \/ CreateAppend(1) \/ Lookup(1) \/ ReadRow(1)
  \/ WriteCount(1) \/ WriteUrl(1) \/ WriteUpdatedAt(1) \/ Clear(1)

SpecNet == InitNet /\ [][NextNet]_vars

\* deleteShortUrl overlapping updateDestination and resolveAndIncrement, on
\* the sheet that holds one record and with every request answered 2xx
NextDel ==
  \E p \in Procs :
    \/ BeginDelete(p) \/ BeginUpdate(p) \/ BeginResolve(p)
    \/ Lookup(p) \/ ReadRow(p) \/ Clear(p)
    \/ WriteCount(p) \/ WriteUrl(p) \/ WriteUpdatedAt(p)

SpecDel == InitRace /\ [][NextDel]_vars

\* overlapping calls that each ask getAccessToken for a token: two getStats
\* calls, which only read the sheet
NextTok ==
  \E p \in Procs :
    \/ BeginStats(p)
    \/ TokenCached(p) \/ TokenRequest(p) \/ TokenResponse(p)
    \/ Lookup(p) \/ ReadRow(p)

SpecTok == InitNet /\ [][NextTok]_vars

(* ------------------- POST /shorten, requests failing ------------------- *)
\* the handler of POST /shorten step by step, one request in a behaviour, on
\* a sheet that holds a code generated for an earlier request.
\* generateShortCode({ length: 6 }) is taken to return; what it returns is
\* one of ShortenCandidates.

GenerationAttempts == 8

ShortenCandidates == {"aaaaaa", "bbbbbb"}

\* attempts <= 8
WithinGenerationAttempts_OneMore(attempts) == attempts <= GenerationAttempts

\* attempts < 8
WithinGenerationAttempts(attempts) == attempts < GenerationAttempts

\* the status of the response of a request that has ended
StatusOf(c) ==
  CASE c.res = "ok" -> 201
    [] c.res = "ConflictError" -> 400
    [] OTHER -> 500

\* the error text of the response of a request that has ended
ErrorTextOf(c) ==
  CASE c.res = "ok" -> ""
    [] c.res = "ConflictError" -> "Short code already in use"
    [] c.res = "Exhausted" -> "Failed to generate unique short code"
    [] OTHER -> "Failed to create short URL"

\* the body is parsed; env is whether every variable of the configuration
\* is present
BeginShorten(p) ==
  \E url \in Urls, shortCodeInput \in {""} \cup ConcCodes, env \in BOOLEAN :
    /\ proc[p].pc = "idle"
    /\ calls < CallBudget
    /\ RoomToAppend(sheet)
    /\ calls' = calls + 1
    /\ proc' = [proc EXCEPT ![p] =
                  [IdleProc EXCEPT
                     !.op = "postShorten", !.url = url, !.env = env,
                     !.res = "pending", !.code = shortCodeInput,
                     !.generated = (shortCodeInput = ""),
                     !.pc = IF shortCodeInput = "" THEN "loop" ELSE "assert",
                     !.checks = IF shortCodeInput = "" THEN 0 ELSE 1]]
    /\ Begun(p)
    /\ UNCHANGED <<sheet, now, last, gen>>

\* while (!finalShortCode && attempts < 8): generate a candidate and call
\* assertShortCodeAvailable, or answer 500
ShortenLoop(p) ==
  /\ proc[p].pc = "loop"
  /\ IF WithinGenerationAttempts(proc[p].attempts)
     THEN \E candidate \in ShortenCandidates :
            proc' = [proc EXCEPT ![p] =
                       [@ EXCEPT !.pc = "assert", !.code = candidate,
                                 !.checks = @ + 1]]
     ELSE proc' = [proc EXCEPT ![p] = [@ EXCEPT !.pc = "done", !.res = "Exhausted"]]
  /\ Begun(p)
  /\ UNCHANGED <<sheet, now, calls, last, gen>>

\* validateEnv throws
MissingEnv(p) ==
  /\ net.on
  /\ proc[p].pc \in RequestPcs
  /\ ~proc[p].env
  /\ proc' = [proc EXCEPT ![p] =
                Thrown(@, "Error",
                       [message |-> "Missing Google Sheets environment variables",
                        status |-> 0, body |-> ""])]
  /\ UNCHANGED <<sheet, now, calls, last, net, gen>>

\* assertShortCodeAvailable reads the code column; a free code becomes
\* finalShortCode and the record is built
ShortenAssert(p) ==
  \E t \in Clock, rand \in RandValues :
    /\ proc[p].pc = "assert"
    /\ now' = t
    /\ proc' = [proc EXCEPT ![p] =
                  IF assertShortCodeAvailable(sheet, proc[p].code).res = "ConflictError"
                  THEN Thrown(@, "ConflictError", Null)
                  ELSE [@ EXCEPT !.pc = "scan",
                                 !.record = buildShortUrlRecord(proc[p].url,
                                                                proc[p].code, t, rand)]]
    /\ Passed(p)
    /\ UNCHANGED <<sheet, calls, last, gen>>

NextShorten ==
  \/ BeginShorten(1) \/ ShortenLoop(1) \/ MissingEnv(1) \/ ShortenAssert(1)
  \/ TokenCached(1) \/ TokenRequest(1) \/ TokenResponse(1) \/ FetchFails(1)
  \/ CreateScan(1) \/ CreateAppend(1)

\* the sheet left by POST /shorten of https://a, for which aaaaaa was generated
InitShorten ==
  /\ sheet = createShortUrl([r \in 1..MaxRows |-> IF r = 1 THEN HeaderRow ELSE EmptyRow],
                            buildShortUrlRecord("https://a", "aaaaaa", 1, 7)).sheet
  /\ now = 1
  /\ calls = 0
  /\ last = [op |-> "createShortUrl", code |-> "aaaaaa", res |-> "ok"]
  /\ proc = [p \in Procs |-> IdleProc]
  /\ net = [NetOff EXCEPT !.on = TRUE]
  /\ gen = IdleGen

SpecShorten == InitShorten /\ [][NextShorten]_vars

(* --------------------------- request bodies ---------------------------- *)
\* The two shorten endpoints, each request one step.  A shortCodeInput of a
\* body is the tuple of its characters; <<>> as the option is a body
\* without the field.  The urls given are well-formed.

MinCodeLength == 3
MaxCodeLength == 30
ApiMaxCodeLength == 32
GeneratedLength == 6

\* the characters of [A-Za-z0-9_-]
WordChars ==
  {"a", "b", "c", "d", "e", "f", "g", "h", "i", "j", "k", "l", "m",
   "n", "o", "p", "q", "r", "s", "t", "u", "v", "w", "x", "y", "z",
   "A", "B", "C", "D", "E", "F", "G", "H", "I", "J", "K", "L", "M",
   "N", "O", "P", "Q", "R", "S", "T", "U", "V", "W", "X", "Y", "Z",
   "0", "1", "2", "3", "4", "5", "6", "7", "8", "9", "_", "-"}

Repeat(ch, n) == [i \in 1..n |-> ch]

\* the string of a tuple of characters
RECURSIVE Text(_)
Text(chars) == IF chars = <<>> THEN "" ELSE Head(chars) \o Text(Tail(chars))

\* the texts a body carries as shortCodeInput
CodeTexts ==
  {Repeat("a", n) : n \in {MinCodeLength - 1, MinCodeLength, MaxCodeLength,
                           MaxCodeLength + 1, ApiMaxCodeLength,
                           ApiMaxCodeLength + 1}}
  \cup {<<>>, <<"a", "!", "a">>, <<"Z", "_", "-", "9">>, <<" ", "a", "b", "c">>}

ShortCodeInputs == {<<>>} \cup {<<chars>> : chars \in CodeTexts}

\* the codes the generators of the endpoints return in the model
GeneratedCodes == {Repeat("a", GeneratedLength), Repeat("b", GeneratedLength)}

\* /^[A-Za-z0-9_-]{3,30}$/ on an optional string
shortenSchema(shortCodeInput) ==
  \/ shortCodeInput = <<>>
  \/ LET chars == shortCodeInput[1]
     IN /\ Len(chars) >= MinCodeLength
        /\ Len(chars) <= MaxCodeLength
        /\ \A k \in 1..Len(chars) : chars[k] \in WordChars

\* validateShorten: length < 3 || length > 32 || !/^[a-zA-Z0-9_-]+$/ is 400
validateShorten(shortCodeInput) ==
  \/ shortCodeInput = <<>>
  \/ LET chars == shortCodeInput[1]
     IN ~ \/ Len(chars) < MinCodeLength
          \/ Len(chars) > ApiMaxCodeLength
          \/ ~ (Len(chars) >= 1 /\ \A k \in 1..Len(chars) : chars[k] \in WordChars)

\* String.prototype.trim, for texts whose only white space is the blank
RECURSIVE TrimStart(_)
TrimStart(chars) ==
  IF chars # <<>> /\ Head(chars) = " " THEN TrimStart(Tail(chars)) ELSE chars

RECURSIVE TrimEnd(_)
TrimEnd(chars) ==
  IF chars # <<>> /\ chars[Len(chars)] = " "
  THEN TrimEnd(SubSeq(chars, 1, Len(chars) - 1)) ELSE chars

trim(chars) == TrimEnd(TrimStart(chars))

generateId(t, rand) == "id_" \o ToString(t) \o "_" \o ToString(rand)

\* appendRow: the six values, the count as String(count)
appendRow(s, data) ==
  appendValues(s, <<data.id, data.url, data.shortCode, data.createdAt,
                    data.updatedAt, ToString(data.count)>>)

\* api.post('/shorten') after validateShorten, with the code the generator
\* returns when it is called
apiShorten(s, url, shortCodeInput, generated, t, rand) ==
  LET given == IF shortCodeInput = <<>> THEN <<>> ELSE trim(shortCodeInput[1])
      code == Text(IF given # <<>> THEN given ELSE generated)
      existing == findByShortCode(s, code)
      row == [id |-> generateId(t, rand), url |-> url, shortCode |-> code,
              createdAt |-> toISOString(t), updatedAt |-> toISOString(t),
              count |-> 0]
  IN IF existing.found
     THEN Response(s, 400, "Short code already in use", Null, "")
     ELSE Response(appendRow(s, row), 201, "", row, "")

\* how a request is recorded when it has been answered
Answered(op, code, r) ==
  /\ calls < MaxNetCalls
  /\ calls' = calls + 1
  /\ sheet' = r.sheet
  /\ last' = [op |-> op, code |-> code,
              res |-> IF r.status = 201 THEN "ok" ELSE r.error]
  /\ UNCHANGED <<proc, net, gen>>

\* POST /api/shorten
ApiShorten ==
  \E url \in Urls, shortCodeInput \in ShortCodeInputs,
     generated \in GeneratedCodes, t \in Clock, rand \in RandValues :
    /\ RoomToAppend(sheet)
    /\ now' = t
    /\ Answered("apiShorten",
                IF shortCodeInput = <<>> THEN "" ELSE Text(shortCodeInput[1]),
                IF validateShorten(shortCodeInput)
                THEN apiShorten(sheet, url, shortCodeInput, generated, t, rand)
                ELSE Response(sheet, 400, "Invalid shortCodeInput", Null, ""))

\* POST /shorten of the main app, every request to the sheet answered 2xx:
\* a supplied code is checked and stored; a generated candidate that is
\* free is stored, and candidates that are taken at every attempt end the
\* request with 500
MainShorten ==
  \E url \in Urls, shortCodeInput \in ShortCodeInputs,
     candidate \in GeneratedCodes, t \in Clock, rand \in RandValues :
    /\ RoomToAppend(sheet)
    /\ now' = t
    /\ Answered("postShorten",
                IF shortCodeInput = <<>> THEN "" ELSE Text(shortCodeInput[1]),
                IF ~shortenSchema(shortCodeInput)
                THEN Response(sheet, 400, "Validation failed", Null, "")
                ELSE IF shortCodeInput # <<>> /\ shortCodeInput[1] # <<>>
                THEN postShorten(sheet, url, Text(shortCodeInput[1]), t, rand)
                ELSE IF assertShortCodeAvailable(sheet, Text(candidate)).res = "ok"
                THEN postShorten(sheet, url, Text(candidate), t, rand)
                ELSE Response(sheet, 500, "Failed to generate unique short code",
                              Null, ""))

NextApi == ApiShorten \/ MainShorten

SpecApi == Init /\ [][NextApi]_vars

(* ---------------------------- code generator --------------------------- *)
\* lib/shortcode, one call in a behaviour: a call keeps nothing for the
\* next one.  A charset is the tuple of its characters; the text handed to
\* the hash is the tuple of its bytes.

GenCharsets == {<<"a">>, <<"a", "b">>, <<"a", "b", "c", "d">>}
GenLengths == 0..MaxLength
GenInputs == {<<104>>, <<104, 105>>}
GenSalts == {<<>>, <<115>>}

\* 0xffffffff, the largest random word, at the modelled width
MaxWord == 2^RandomBits - 1

DigestLen == 32

\* Number.isInteger(length) && length > 0
ValidLength(length) == length > 0

\* the strings generateShortCode can build: length characters of charset,
\* each at an index randomInt returned
RECURSIVE Strings(_, _)
Strings(length, charset) ==
  IF length <= 0 THEN {""}
  ELSE {str \o charset[i + 1] :
          str \in Strings(length - 1, charset), i \in 0..(Len(charset) - 1)}

\* maxAttempts = (options.length ?? 6) * 5, with the length given
DefaultMaxAttempts(length) == length * 5

\* a loop that gives up one attempt early
WithinAttempts_OffByOne(attempt, maxAttempts) == attempt < maxAttempts

\* attempt <= maxAttempts, the condition of the loop
WithinAttempts(attempt, maxAttempts) == attempt <= maxAttempts

RECURSIVE SumSeq(_)
SumSeq(seq) == IF seq = <<>> THEN 0 ELSE Head(seq) + SumSeq(Tail(seq))

\* the 32 bytes of the digest of data: a fixed function of data, one for
\* crypto.subtle.digest and one for the fallback hash
Digest(subtle, data) ==
  [i \in 1..DigestLen |->
     ((IF subtle THEN 31 ELSE 17) * SumSeq(data) + 7 * i + Len(data)) % 256]

\* for (i = 0; i < digestBytes.length && code.length < length; i++)
\*   code += charset[digestBytes[i] % charLen]
RECURSIVE MapDigest(_, _, _, _, _, _)
MapDigest(digest, i, code, count, length, charset) ==
  IF i <= Len(digest) /\ count < length
  THEN MapDigest(digest, i + 1,
                 code \o charset[(digest[i] % Len(charset)) + 1],
                 count + 1, length, charset)
  ELSE code

hashShortCode(input, length, charset, salt, subtle) ==
  IF Len(charset) < 4
  THEN [res |-> "CharsetError", val |-> ""]
  ELSE [res |-> "ok",
        val |-> MapDigest(Digest(subtle, salt \o input), 1, "", 0, length, charset)]

\* Math.floor((0xffffffff / maxExclusive) * maxExclusive): the quotient is
\* exact when maxExclusive is a power of two or divides 0xffffffff, and the
\* product is then 0xffffffff; otherwise the quotient is rounded and the
\* product is 0xffffffff or falls just below it
Limits(maxExclusive) ==
  IF MaxWord % maxExclusive = 0 \/ \E k \in 1..RandomBits : maxExclusive = 2^k
  THEN {MaxWord}
  ELSE {MaxWord - 1, MaxWord}

GenUnchanged == UNCHANGED <<sheet, now, calls, last, proc, net>>

\* generateUniqueShortCode(options)
UniqueBegin ==
  \E length \in GenLengths, charset \in GenCharsets,
     given \in {<<>>} \cup {<<m>> : m \in 0..MaxAttempts} :
    /\ gen.pc = "idle"
    /\ gen' = [IdleGen EXCEPT
                 !.pc = "generate", !.fn = "generateUniqueShortCode",
                 !.length = length, !.charset = charset,
                 !.maxAttempts = IF given = <<>> THEN DefaultMaxAttempts(length)
                                 ELSE given[1],
                 !.attempt = 1]
    /\ GenUnchanged

\* the head of the loop, and generateShortCode(rest)
UniqueGenerate ==
  /\ gen.pc = "generate"
  /\ IF ~WithinAttempts(gen.attempt, gen.maxAttempts)
     THEN gen' = [gen EXCEPT !.pc = "done", !.res = "UnableError"]
     ELSE IF ~ValidLength(gen.length)
     THEN gen' = [gen EXCEPT !.pc = "done", !.res = "LengthError"]
     ELSE IF Len(gen.charset) < 2
     THEN gen' = [gen EXCEPT !.pc = "done", !.res = "CharsetError"]
     ELSE \E candidate \in Strings(gen.length, gen.charset) :
            gen' = [gen EXCEPT !.pc = "check", !.candidate = candidate,
                               !.randoms = @ + 1]
  /\ GenUnchanged

\* exists = await checkExists(candidate); if (!exists) return candidate
UniqueCheck ==
  \E exists \in BOOLEAN :
    /\ gen.pc = "check"
    /\ gen' = IF ~exists
              THEN [gen EXCEPT !.pc = "done", !.res = "ok", !.val = gen.candidate,
                               !.checks = @ + 1, !.exists = exists]
              ELSE [gen EXCEPT !.pc = "generate", !.attempt = @ + 1,
                               !.checks = @ + 1, !.takenReports = @ + 1,
                               !.exists = exists]
    /\ GenUnchanged

\* hybridDeterministicThenRandom(input, opts): the deterministic code
HybridBegin ==
  \E input \in GenInputs, salt \in GenSalts, charset \in GenCharsets,
     deterministicLength \in GenLengths,
     given \in {<<>>} \cup {<<l>> : l \in GenLengths}, subtle \in BOOLEAN :
    LET hashed == hashShortCode(input, deterministicLength, charset, salt, subtle)
        randomLength == IF given = <<>> THEN deterministicLength ELSE given[1]
    IN /\ gen.pc = "idle"
       /\ gen' = IF hashed.res # "ok"
                 THEN [IdleGen EXCEPT
                         !.pc = "done", !.fn = "hybridDeterministicThenRandom",
                         !.res = hashed.res]
                 ELSE [IdleGen EXCEPT
                         !.pc = "detCheck", !.fn = "hybridDeterministicThenRandom",
                         !.length = randomLength, !.charset = charset,
                         !.deterministic = hashed.val]
       /\ GenUnchanged

\* a check that falls back when the deterministic code is free
HybridCheck_Inverted ==
  \E taken \in BOOLEAN :
    /\ gen.pc = "detCheck"
    /\ gen' = IF taken
              THEN [gen EXCEPT !.pc = "done", !.res = "ok",
                               !.val = gen.deterministic, !.detReport = "taken"]
              ELSE [gen EXCEPT !.pc = "generate", !.detReport = "absent",
                               !.maxAttempts = DefaultMaxAttempts(gen.length),
                               !.attempt = 1]
    /\ GenUnchanged

\* taken = await checkExists(deterministic); if (!taken) return deterministic;
\* return generateUniqueShortCode({length: randomLength, charset, checkExists})
HybridCheck ==
  \E taken \in BOOLEAN :
    /\ gen.pc = "detCheck"
    /\ gen' = IF ~taken
              THEN [gen EXCEPT !.pc = "done", !.res = "ok",
                               !.val = gen.deterministic, !.detReport = "absent"]
              ELSE [gen EXCEPT !.pc = "generate", !.detReport = "taken",
                               !.maxAttempts = DefaultMaxAttempts(gen.length),
                               !.attempt = 1]
    /\ GenUnchanged

\* secureRandomInt(maxExclusive), with or without crypto.getRandomValues
RandBegin ==
  \E n \in 1..MaxCharset, crypto \in BOOLEAN :
  \E limit \in Limits(n) :
    /\ gen.pc = "idle"
    /\ gen' = [IdleGen EXCEPT
                 !.pc = IF crypto THEN "draw" ELSE "fallback",
                 !.fn = "secureRandomInt", !.n = n, !.crypto = crypto,
                 !.limit = IF crypto THEN limit ELSE 0]
    /\ GenUnchanged

\* arr[0]
Remainder_Whole(word, maxExclusive) == word

\* arr[0] % maxExclusive
Remainder(word, maxExclusive) == word % maxExclusive

\* crypto.getRandomValues(arr); if (arr[0] < limit) return arr[0] % maxExclusive;
\* return secureRandomInt(maxExclusive); redrawn records that a word was
\* rejected
RandDraw ==
  \E word \in 0..MaxWord :
    /\ gen.pc = "draw"
    /\ gen' = IF word < gen.limit
              THEN [gen EXCEPT !.pc = "done", !.res = "ok", !.word = word,
                               !.val = Remainder(word, gen.n)]
              ELSE [gen EXCEPT !.word = word, !.redrawn = TRUE]
    /\ GenUnchanged

\* the random source yields a word below the limit
RandAccepted == RandDraw /\ gen'.pc = "done"

\* Math.floor(Math.random() * maxExclusive)
RandFallback ==
  \E r \in 0..(gen.n - 1) :
    /\ gen.pc = "fallback"
    /\ gen' = [gen EXCEPT !.pc = "done", !.res = "ok", !.val = r]
    /\ GenUnchanged

\* generateShortCode(options), character by character; the text built is
\* the tuple out of its characters.  integer is Number.isInteger(length):
\* when it is FALSE the length given is length + 0.5
ShortBegin ==
  \E length \in -1..MaxLength, integer \in BOOLEAN, charset \in GenCharsets :
    /\ gen.pc = "idle"
    /\ gen' = IF ~integer \/ ~ValidLength(length)
              THEN [IdleGen EXCEPT !.pc = "done", !.fn = "generateShortCode",
                                   !.length = length, !.integer = integer,
                                   !.charset = charset, !.res = "LengthError"]
              ELSE IF Len(charset) < 2
              THEN [IdleGen EXCEPT !.pc = "done", !.fn = "generateShortCode",
                                   !.length = length, !.integer = integer,
                                   !.charset = charset, !.res = "CharsetError"]
              ELSE [IdleGen EXCEPT !.pc = "char", !.fn = "generateShortCode",
                                   !.length = length, !.integer = integer,
                                   !.charset = charset]
    /\ GenUnchanged

\* the lengths asked of hashShortCode: up to one past the digest's bytes
HashLengths == GenLengths \cup {DigestLen, DigestLen + 1}

\* hashShortCode(input, options), called on its own
HashBegin ==
  \E input \in GenInputs, salt \in GenSalts, charset \in GenCharsets,
     length \in HashLengths, subtle \in BOOLEAN :
    LET hashed == hashShortCode(input, length, charset, salt, subtle)
    IN /\ gen.pc = "idle"
       /\ gen' = [IdleGen EXCEPT !.pc = "done", !.fn = "hashShortCode",
                                 !.length = length, !.charset = charset,
                                 !.res = hashed.res, !.val = hashed.val]
       /\ GenUnchanged

\* i <= length
MoreChars_OneMore(i, length) == i <= length

\* i < length, the condition of the loop
MoreChars(i, length) == i < length

\* out += charset[randomInt(charset.length)], or return out
ShortChar ==
  /\ gen.pc = "char"
  /\ IF MoreChars(Len(gen.out), gen.length)
     THEN \E r \in 0..(Len(gen.charset) - 1) :
            gen' = [gen EXCEPT !.out = Append(@, gen.charset[r + 1]),
                               !.randoms = @ + 1]
     ELSE gen' = [gen EXCEPT !.pc = "done", !.res = "ok"]
  /\ GenUnchanged

NextGen ==
  \/ UniqueBegin \/ UniqueGenerate \/ UniqueCheck
  \/ HybridBegin \/ HybridCheck
  \/ RandBegin \/ RandDraw \/ RandFallback
  \/ ShortBegin \/ ShortChar
  \/ HashBegin

SpecGen == Init /\ [][NextGen]_vars

\* the random source eventually yields a word below the limit, and the
\* fallback returns
SpecGenFair == SpecGen /\ WF_vars(RandAccepted) /\ WF_vars(RandFallback)

(* ------------------------ vocabulary of the claims --------------------- *)

\* a live row (a data row, below row 1) holds code in its shortCode cell
HeldByLiveRow(s, code) ==
  \E i \in 2..Len(s) : s[i][ColShortCode] = code

\* the data row that holds code
RowOf(s, code) ==
  CHOOSE i \in 2..Len(s) : s[i][ColShortCode] = code

\* the record that the six cells of a row spell
RowRecord(row) ==
  [id |-> row[ColId], url |-> row[ColUrl], shortCode |-> row[ColShortCode],
   createdAt |-> row[ColCreatedAt], updatedAt |-> row[ColUpdatedAt],
   count |-> Number(row[ColCount])]

\* row 1 still is the header and code is not the header text of column C
HeaderApart(s, code) ==
  s[1] = HeaderRow /\ code # HeaderRow[ColShortCode]

\* the sheet has a cleared row above a live row
HasGap(s) ==
  \E i \in 2..Len(s), j \in 2..Len(s) :
    i < j /\ RowIsEmpty(s[i]) /\ ~RowIsEmpty(s[j])

\* the url returned by each of n calls of resolveAndIncrement in a row
RECURSIVE ResolveUrls(_, _, _)
ResolveUrls(s, code, n) ==
  IF n = 0 THEN <<>>
  ELSE LET r == resolveAndIncrement(s, code)
       IN <<[res |-> r.res, url |-> r.val]>> \o ResolveUrls(r.sheet, code, n - 1)

\* the sheet after n calls of resolveAndIncrement in a row
RECURSIVE ResolveTimes(_, _, _)
ResolveTimes(s, code, n) ==
  IF n = 0 THEN s
  ELSE ResolveTimes(resolveAndIncrement(s, code).sheet, code, n - 1)

(* -------------------------------- claims ------------------------------- *)

\* C1: create then find round trip.  In every reachable sheet (header in
\* place, cleared rows included), for every url and every code that no live
\* row holds, createShortUrl of the record built from (url, code) succeeds
\* and a following getRecord(code) returns a record with the id, url and
\* shortCode of the created record and count 0.
C1_CreateFindRoundTrip ==
  \A url \in Urls, code \in Codes, t \in Clock, rand \in RandValues :
    (HeaderApart(sheet, code) /\ ~HeldByLiveRow(sheet, code) /\ RoomToAppend(sheet))
    => LET record == buildShortUrlRecord(url, code, t, rand)
           c == createShortUrl(sheet, record)
           g == getRecord(c.sheet, code)
       IN /\ c.res = "ok"
          /\ g.res = "ok"
          /\ g.val.id = record.id
          /\ g.val.url = url
          /\ g.val.shortCode = code
          /\ g.val.count = 0

\* C2: delete then find.  For every code held by a live row, after a
\* successful deleteShortUrl(code) getRecord(code) fails with NotFoundError
\* and createShortUrl with the same code succeeds.
C2_DeleteThenFind ==
  \A code \in Codes :
    (HeaderApart(sheet, code) /\ HeldByLiveRow(sheet, code))
    => LET d == deleteShortUrl(sheet, code)
       IN d.res = "ok"
          => /\ getRecord(d.sheet, code).res = "NotFoundError"
             /\ \A url \in Urls, t \in Clock, rand \in RandValues :
                  RoomToAppend(d.sheet)
                  => createShortUrl(d.sheet,
                       buildShortUrlRecord(url, code, t, rand)).res = "ok"

\* C3: resolveAndIncrement targets the right record.  For every code held
\* by a live row it returns the url of the row whose shortCode cell is code,
\* adds one to the count cell of that row and changes no other cell.
C3_ResolveTargetsRecord ==
  \A code \in Codes :
    (HeaderApart(sheet, code) /\ HeldByLiveRow(sheet, code))
    => LET i == RowOf(sheet, code)
           r == resolveAndIncrement(sheet, code)
       IN /\ r.res = "ok"
          /\ r.val = sheet[i][ColUrl]
          /\ r.sheet = [sheet EXCEPT ![i][ColCount] =
                          ToString(Number(sheet[i][ColCount]) + 1)]

\* C4: delete leaves a gap that scans skip.  A successful deleteShortUrl(code)
\* clears exactly the six cells of the row that held code, and every other
\* live record keeps its six cells and is still found under its own code.
C4_DeleteLeavesSkippedGap ==
  \A code \in Codes :
    (HeaderApart(sheet, code) /\ HeldByLiveRow(sheet, code))
    => LET i == RowOf(sheet, code)
           d == deleteShortUrl(sheet, code)
       IN d.res = "ok"
          => /\ d.sheet = [sheet EXCEPT ![i] = EmptyRow]
             /\ \A j \in 2..Len(sheet) :
                  (j # i /\ sheet[j][ColShortCode] # "")
                  => LET other == sheet[j][ColShortCode]
                     IN /\ findRowIndexByShortCode(d.sheet, other) = j
                        /\ getRecord(d.sheet, other) =
                             Result(d.sheet, "ok", RowRecord(sheet[j]))
                        /\ getStats(d.sheet, other).res = "ok"
                        /\ resolveAndIncrement(d.sheet, other).res = "ok"

\* C5: update preserves identity.  For every code held by a live row,
\* updateDestination(code, newUrl) sets the url and updatedAt of the record
\* with that code, leaves its id, shortCode and createdAt as they were, and a
\* following getRecord(code) returns url = newUrl.
C5_UpdatePreservesIdentity ==
  \A code \in Codes, newUrl \in Urls, t \in Clock :
    (HeaderApart(sheet, code) /\ HeldByLiveRow(sheet, code))
    => LET i == RowOf(sheet, code)
           u == updateDestination(sheet, code, newUrl, t)
           g == getRecord(u.sheet, code)
       IN /\ u.res = "ok"
          /\ u.sheet[i] = [sheet[i] EXCEPT ![ColUrl] = newUrl,
                                           ![ColUpdatedAt] = toISOString(t)]
          /\ g.res = "ok"
          /\ g.val.url = newUrl

\* C6: increment monotonicity.  For a live code, n calls of
\* resolveAndIncrement(code) one after the other all return the same url, and
\* getStats(code) afterwards is the count before the calls plus n.
C6_IncrementMonotonic ==
  \A code \in Codes, n \in 1..MaxCount :
    (HeaderApart(sheet, code) /\ HeldByLiveRow(sheet, code))
    => LET i == RowOf(sheet, code)
           urls == ResolveUrls(sheet, code, n)
           after == getStats(ResolveTimes(sheet, code, n), code)
       IN /\ \A k \in 1..n : urls[k].res = "ok" /\ urls[k].url = sheet[i][ColUrl]
          /\ after.res = "ok"
          /\ after.val = Number(sheet[i][ColCount]) + n

\* C7: sequential uniqueness.  createShortUrl with a shortCode that a live
\* row holds fails with ConflictError, appends nothing and leaves every cell
\* of the sheet as it was.
C7_ConflictLeavesSheet ==
  \A url \in Urls, code \in Codes, t \in Clock, rand \in RandValues :
    HeldByLiveRow(sheet, code)
    => createShortUrl(sheet, buildShortUrlRecord(url, code, t, rand)) =
         Result(sheet, "ConflictError", Null)

\* C7 witness: a create for a code that a live row holds has ended in
\* ConflictError.
C7_Witness ==
  /\ last.op = "createShortUrl"
  /\ last.res = "ConflictError"
  /\ HeldByLiveRow(sheet, last.code)

\* C8: the header row is never data.  No call writes or clears a cell of
\* row 1: in every reachable state row 1 holds the header cells.
C8_HeaderNeverData ==
  sheet[1] = HeaderRow

\* C9: uniqueness invariant without concurrency.  In every state reached by
\* calls that do not overlap, no two rows hold the same shortCode value.
C9_UniqueShortCodes ==
  \A i \in 1..Len(sheet), j \in 1..Len(sheet) :
    (i # j /\ sheet[i][ColShortCode] # "")
    => sheet[i][ColShortCode] # sheet[j][ColShortCode]

\* C9 witness: a create has succeeded for a code while another live row
\* holds another code and a row above them was cleared by a delete.
C9_Witness ==
  /\ last.op = "createShortUrl"
  /\ last.res = "ok"
  /\ HeldByLiveRow(sheet, last.code)
  /\ \E c \in Codes : c # last.code /\ HeldByLiveRow(sheet, c)
  /\ HasGap(sheet)

\* the rows that hold code in their shortCode cell
RowsHolding(s, code) ==
  {i \in 1..Len(s) : s[i][ColShortCode] = code}

\* C10: duplicate-create race.  When a createShortUrl call has read the code
\* column without finding its code and another createShortUrl call for the
\* same code has appended in the meantime, the append of the first call is
\* still sent and succeeds: both calls return successfully and the sheet
\* holds two live rows with that shortCode.
C10_DuplicateCreateRace ==
  [][\A p \in Procs, q \in Procs :
       ( /\ p # q
         /\ proc[p].pc = "append"
         /\ proc[q].pc = "done"
         /\ proc[q].op = "createShortUrl"
         /\ proc[q].res = "ok"
         /\ proc[q].record.shortCode = proc[p].record.shortCode
         /\ proc[q].existing = proc[p].existing
         /\ proc'[p].pc = "done" )
       => /\ proc'[p].res = "ok"
          /\ Cardinality(RowsHolding(sheet', proc[p].record.shortCode)) >= 2]_vars

\* C10 witness: two overlapping creates for one code have both read the same
\* code column, both have returned successfully and two live rows hold the
\* code.
C10_Witness ==
  /\ \A p \in Procs : /\ proc[p].pc = "done"
                      /\ proc[p].op = "createShortUrl"
                      /\ proc[p].res = "ok"
  /\ proc[1].record.shortCode = proc[2].record.shortCode
  /\ proc[1].existing = proc[2].existing
  /\ Cardinality({i \in 2..Len(sheet) :
                    sheet[i][ColShortCode] = proc[1].record.shortCode}) = 2

\* call p has returned from a successful resolveAndIncrement
ResolveReturned(p) ==
  /\ proc[p].pc = "done"
  /\ proc[p].op = "resolveAndIncrement"
  /\ proc[p].res = "ok"

\* C11: lost increment.  When a resolveAndIncrement call writes its count
\* while an overlapping call on the same code, which read the same count from
\* the same row, has already written its own and returned successfully, the
\* write succeeds as well and the stored count is the count both calls read
\* plus 1: two successful calls, one increment.
C11_LostIncrementRace ==
  [][\A p, q \in Procs :
       ( /\ p # q
         /\ proc[p].pc = "writeCount"
         /\ proc'[p].pc = "done"
         /\ ResolveReturned(q)
         /\ proc[q].code = proc[p].code
         /\ HeldByLiveRow(sheet, proc[p].code)
         /\ proc[q].rowIndex = proc[p].rowIndex
         /\ proc[q].record.count = proc[p].record.count
         /\ Number(sheet[proc[q].rowIndex][ColCount]) = proc[q].record.count + 1 )
       => /\ proc'[p].res = "ok"
          /\ Number(sheet'[proc[p].rowIndex][ColCount]) = proc[p].record.count + 1
     ]_vars

\* both overlapping calls have returned successfully and the count grew by 1
C11_Witness ==
  \E p, q \in Procs :
    /\ p # q
    /\ ResolveReturned(p)
    /\ ResolveReturned(q)
    /\ proc[p].code = proc[q].code
    /\ HeldByLiveRow(sheet, proc[p].code)
    /\ proc[p].rowIndex = proc[q].rowIndex
    /\ proc[p].record.count = proc[q].record.count
    /\ Number(sheet[proc[p].rowIndex][ColCount]) = proc[p].record.count + 1

\* row i holds the same record before and after the step
RecordStays(i) ==
  /\ sheet[i][ColShortCode] # ""
  /\ sheet[i] # HeaderRow
  /\ sheet'[i][ColShortCode] = sheet[i][ColShortCode]

\* C12: from the creation of a record until its deletion, under any
\* interleaving of overlapping resolveAndIncrement, updateDestination and
\* create calls, the count cell holds a non-negative integer that never
\* becomes smaller from one state to the next.
C12_CountNeverDecreases ==
  [][\A i \in 1..MaxRows :
       RecordStays(i)
       => /\ Number(sheet[i][ColCount]) >= 0
          /\ Number(sheet'[i][ColCount]) >= Number(sheet[i][ColCount])
     ]_vars

\* the step is the write of a resolveAndIncrement call on row i whose read
\* of the count has been overtaken by another call's write
StaleCountWrite(i) ==
  \E p \in Procs :
    /\ proc[p].pc = "writeCount"
    /\ proc'[p].pc = "done"
    /\ proc[p].rowIndex = i
    /\ proc[p].record.count # Number(sheet[i][ColCount])

\* C12 (amended): under any interleaving of overlapping resolveAndIncrement,
\* updateDestination and create calls the count cell of a record holds a
\* non-negative integer, and it becomes smaller only by the write of a
\* resolveAndIncrement call that read the count before another call's write
\* to the same cell; calls that do not overlap never make it smaller.
C12_CountDecreasesOnlyByStaleWrite ==
  [][\A i \in 1..MaxRows :
       RecordStays(i)
       => /\ Number(sheet[i][ColCount]) >= 0
          /\ \/ Number(sheet'[i][ColCount]) >= Number(sheet[i][ColCount])
             \/ StaleCountWrite(i)
     ]_vars

\* a count that an overlapping call's late write has made smaller: q read a
\* larger count than p and returned, yet the cell holds p's count plus 1
C12_Witness ==
  \E p, q \in Procs :
    /\ ResolveReturned(p)
    /\ ResolveReturned(q)
    /\ proc[p].rowIndex = proc[q].rowIndex
    /\ proc[q].record.count > proc[p].record.count
    /\ Number(sheet[proc[p].rowIndex][ColCount]) = proc[p].record.count + 1

\* the call failed with NotFoundError and wrote nothing to sheet s
NotFoundUntouched(s, r) ==
  r.res = "NotFoundError" /\ r.sheet = s

\* C13: getRecord, getStats, updateDestination, resolveAndIncrement and
\* deleteShortUrl, called with a code that no live row holds, fail with
\* NotFoundError and leave every cell of the sheet unchanged.
C13_NotFoundLeavesStore ==
  \A code \in Codes :
    ~HeldByLiveRow(sheet, code)
    => /\ NotFoundUntouched(sheet, getRecord(sheet, code))
       /\ NotFoundUntouched(sheet, getStats(sheet, code))
       /\ \A newUrl \in Urls :
            NotFoundUntouched(sheet, updateDestination(sheet, code, newUrl, now))
       /\ NotFoundUntouched(sheet, resolveAndIncrement(sheet, code))
       /\ NotFoundUntouched(sheet, deleteShortUrl(sheet, code))

\* the last request the running call has sent
LastSent == net.log[1][Len(net.log[1])]

\* C14: every Record Store operation sends each of its remote requests at
\* most once; when a token exchange or a spreadsheet request answers non-2xx
\* the operation fails at once with an error carrying the status and body,
\* and issues no further request.
C14_NoRetries ==
  /\ \A i, j \in 1..Len(net.log[1]) :
       i < j => ~(/\ net.log[1][i].kind = net.log[1][j].kind
                  /\ net.log[1][i].at = net.log[1][j].at)
  /\ \A i \in 1..(Len(net.log[1]) - 1) : Ok(net.log[1][i].status)
  /\ (Len(net.log[1]) > 0 /\ ~Ok(LastSent.status))
     => /\ proc[1].pc = "done"
        /\ proc[1].res = "Error"
        /\ proc[1].val.status = LastSent.status
        /\ proc[1].val.body = LastSent.body

\* a call whose first request was answered and whose second was not
C14_Witness ==
  /\ Len(net.log[1]) >= 2
  /\ ~Ok(LastSent.status)
  /\ proc[1].res = "Error"

\* generateUniqueShortCode runs or has run, called directly or as the
\* fallback of hybridDeterministicThenRandom
UniqueRan ==
  gen.fn = "generateUniqueShortCode" \/ gen.detReport = "taken"

\* C15: generateUniqueShortCode returns the first generated candidate for
\* which checkExists reports false and never one for which it reported true;
\* it calls checkExists at most maxAttempts times (by default 5 times the
\* requested length), and fails with its error of exhaustion exactly when
\* maxAttempts consecutive candidates were all reported taken.
C15_UniqueGeneration ==
  UniqueRan
  => /\ gen.checks <= (IF gen.maxAttempts < 0 THEN 0 ELSE gen.maxAttempts)
     /\ (gen.pc = "done" /\ gen.res = "ok")
        => /\ gen.val = gen.candidate
           /\ gen.exists = FALSE
           /\ gen.checks = gen.takenReports + 1
     /\ gen.pc = "done"
        => (gen.res = "UnableError"
            <=> /\ gen.checks = gen.takenReports
                /\ gen.takenReports = gen.maxAttempts)

\* a candidate returned after an earlier one had been reported taken
C15_Witness ==
  /\ gen.fn = "generateUniqueShortCode"
  /\ gen.pc = "done"
  /\ gen.res = "ok"
  /\ gen.takenReports >= 1

\* C16: hybridDeterministicThenRandom checks the deterministic code first
\* and returns it, without generating any random candidate, whenever
\* checkExists reports it absent; only when it is reported taken does it fall
\* back to unique random generation, and every code it returns was reported
\* absent by checkExists.
C16_HybridOrdering ==
  gen.fn = "hybridDeterministicThenRandom"
  => /\ (gen.randoms > 0 \/ gen.checks > 0) => gen.detReport = "taken"
     /\ gen.detReport = "absent"
        => /\ gen.pc = "done"
           /\ gen.res = "ok"
           /\ gen.val = gen.deterministic
           /\ gen.randoms = 0
     /\ (gen.pc = "done" /\ gen.res = "ok")
        => \/ gen.detReport = "absent" /\ gen.val = gen.deterministic
           \/ /\ gen.detReport = "taken"
              /\ gen.val = gen.candidate
              /\ gen.exists = FALSE

\* the deterministic code was reported taken and a random code was returned
C16_Witness ==
  /\ gen.fn = "hybridDeterministicThenRandom"
  /\ gen.pc = "done"
  /\ gen.res = "ok"
  /\ gen.detReport = "taken"
  /\ gen.randoms >= 1
  /\ gen.val = gen.candidate

\* the random words that secureRandomInt(n) accepts, and those it maps to r
Accepted(limit) == {word \in 0..MaxWord : word < limit}
Preimages(n, limit, r) == {word \in Accepted(limit) : word % n = r}

\* C18: for every alphabet size n >= 2, secureRandomInt(n) accepts a set of
\* random words whose size is a multiple of n and rejects the rest, so that
\* each result in [0, n) has the same number of accepted preimages.
C18_NoModuloBias ==
  (gen.fn = "secureRandomInt" /\ gen.crypto)
  => /\ Cardinality(Accepted(gen.limit)) % gen.n = 0
     /\ \A r1, r2 \in 0..(gen.n - 1) :
          Cardinality(Preimages(gen.n, gen.limit, r1))
            = Cardinality(Preimages(gen.n, gen.limit, r2))

\* C19: POST /shorten with a desired code.  When the desired code is held by
\* a live row the handler responds 400 with error 'Short code already in use'
\* and appends no row; when it is free the handler responds 201 with a record
\* carrying exactly that code and count 0.
C19_ShortenWithDesiredCode ==
  \A code \in Codes, url \in Urls, rand \in RandValues :
    RoomToAppend(sheet)
    => LET r == postShorten(sheet, url, code, now, rand)
       IN IF HeldByLiveRow(sheet, code)
          THEN /\ r.status = 400
               /\ r.error = "Short code already in use"
               /\ r.sheet = sheet
          ELSE /\ r.status = 201
               /\ r.record # Null
               /\ r.record.shortCode = code
               /\ r.record.count = 0

\* C20: GET /:shortCode for a code held by a live row responds with a 302
\* redirect to the record's original url and increments the record's visit
\* count by one.
C20_RedirectContract ==
  \A code \in Codes :
    (HeaderApart(sheet, code) /\ HeldByLiveRow(sheet, code))
    => LET i == RowOf(sheet, code)
           r == getShortCode(sheet, code)
       IN /\ r.status = 302
          /\ r.location = sheet[i][ColUrl]
          /\ Number(r.sheet[i][ColCount]) = Number(sheet[i][ColCount]) + 1

\* the rows after row 1 that have an id, a url and a shortCode
ListedRows(s) ==
  {i \in 2..Len(s) : s[i][ColId] # "" /\ s[i][ColUrl] # "" /\ s[i][ColShortCode] # ""}

\* the k-th of them from the top of the sheet
NthListed(s, k) ==
  CHOOSE i \in ListedRows(s) : Cardinality({j \in ListedRows(s) : j <= i}) = k

\* C21: listAllRows returns, in sheet order, exactly one record for every
\* row after row 1 that has non-empty id, url and shortCode; the header row,
\* every fully empty row and every row missing one of these three fields is
\* omitted.
C21_ListAllRows ==
  LET rows == listAllRows(sheet).rows
  IN /\ Len(rows) = Cardinality(ListedRows(sheet))
     /\ \A k \in 1..Len(rows) : rows[k] = RowRecord(sheet[NthListed(sheet, k)])

\* a sheet with its header, a row that lacks its id and shortCode, and a
\* record below it, which is the one row listed
C21_Witness ==
  /\ sheet[1] = HeaderRow
  /\ \E j, k \in 2..MaxRows :
       /\ ~RowIsEmpty(sheet[j]) /\ sheet[j][ColShortCode] = ""
       /\ j < k /\ k \in ListedRows(sheet)
  /\ Len(listAllRows(sheet).rows) = 1

\* C22: for every sheet content reachable by create, update, increment and
\* delete (header in row 1, cleared rows anywhere), findRowIndexByShortCode
\* returns the 1-based sheet row number of the row whose column-C cell
\* equals code, and not found (0) when no data row holds code.
C22_FindRowIndex ==
  \A code \in Codes :
    HeaderApart(sheet, code)
    => findRowIndexByShortCode(sheet, code)
         = (IF HeldByLiveRow(sheet, code) THEN RowOf(sheet, code) ELSE 0)

\* the lifetime a token response states: expires_in, or 3600 without one
StatedLifetime(resp) ==
  IF resp.expires_in = <<>> THEN 3600 ELSE resp.expires_in[1]

\* the cached expiry minus 60 seconds is later than the time t
CacheUsableAt(t) ==
  IF net.cache = Null THEN FALSE ELSE net.cache.exp - 60 > t

\* C23: getAccessToken returns the cached token with no network request
\* exactly when the cached expiry minus 60 seconds is later than the time it
\* reads at its start; in every other case it performs one token exchange,
\* and on success caches the access_token with the start time plus expires_in
\* (3600 when the response has none).
C23_TokenCacheRule ==
  [][/\ (net.phase[1] = "token" /\ net'.phase[1] # "token")
        => IF CacheUsableAt(now')
           THEN /\ net'.phase[1] = "fetch"
                /\ net'.token[1] = net.cache.token
                /\ net'.cache = net.cache
                /\ net'.pending = net.pending
                /\ net'.log = net.log
           ELSE /\ net'.phase[1] = "exchange"
                /\ net'.start[1] = now'
                /\ net'.pending[1] \in TokenResponses(now')
                /\ net'.cache = net.cache
     /\ (net.phase[1] = "exchange" /\ net'.phase[1] # "exchange")
        => LET resp == net.pending[1] IN
             /\ Len(net'.log[1]) = Len(net.log[1]) + 1
             /\ net'.log[1][Len(net'.log[1])].kind = "token"
             /\ net'.pending[1] = Null
             /\ Ok(resp.status)
                => /\ net'.phase[1] = "fetch"
                   /\ net'.token[1] = resp.body
                   /\ net'.cache = [token |-> resp.body,
                                    exp |-> net.start[1] + StatedLifetime(resp)]
     /\ (net.phase[1] = "exchange" /\ net'.phase[1] = "exchange")
        => UNCHANGED net]_vars

\* a call uses, without an exchange of its own, a token cached from a
\* response that stated no expires_in
C23_Witness ==
  /\ net.phase[1] = "fetch"
  /\ net.log[1] = <<>>
  /\ net.cache # Null
  /\ net.token[1] = net.cache.token
  /\ net.cache.exp > DefaultExpiresIn

\* the time at which the endpoint stops accepting the token
TrueExpiry(token) == token.at + token.life

\* the tokens the call can hold: the cached one, and the one in the 2xx
\* answer of the endpoint to its own exchange
Received(p) ==
  (IF net.cache = Null THEN {} ELSE {net.cache.token})
  \cup (IF net.pending[p] # Null /\ Ok(net.pending[p].status)
        THEN {net.pending[p].body}
        ELSE {})

RefusedExchanges(log) ==
  {i \in 1..Len(log) : log[i].kind = "token" /\ ~Ok(log[i].status)}

\* C25: when the token endpoint answers non-2xx, getAccessToken fails with
\* an error carrying the status and the response body, the cached token and
\* expiry stay exactly as they were, and the operation that asked for the
\* token sends no spreadsheet request.
C25_FailedTokenExchange ==
  [][/\ (/\ net.phase[1] = "exchange"
         /\ net'.phase[1] # "exchange"
         /\ ~Ok(net.pending[1].status))
        => /\ proc'[1].pc = "done"
           /\ proc'[1].res = "Error"
           /\ proc'[1].val.message = "Failed to obtain access token"
           /\ proc'[1].val.status = net.pending[1].status
           /\ proc'[1].val.body = net.pending[1].body
           /\ net'.cache = net.cache
           /\ sheet' = sheet
     /\ \A i \in RefusedExchanges(net'.log[1]) :
          /\ i = Len(net'.log[1])
          /\ \A j \in 1..Len(net'.log[1]) :
               ~(net'.log[1][j].kind = "sheet"
                 /\ net'.log[1][j].at = net'.log[1][i].at)]_vars

\* an update whose first write went through and whose second write was
\* refused a token, with a token of an earlier exchange still cached
C25_Witness ==
  /\ RefusedExchanges(net.log[1]) # {}
  /\ proc[1].op = "updateDestination"
  /\ LastSent.at = "writeUpdatedAt"
  /\ proc[1].res = "Error"
  /\ net.cache # Null

\* C26: updateDestination writes the url cell first and the updatedAt cell
\* second, as two separate requests; if the second request fails the
\* operation reports an error, the row of the record holds the new url with
\* the old updatedAt, every other cell is unchanged, and the url is not
\* rolled back.
C26_PartialUpdate ==
  [][proc[1].op = "updateDestination"
     => /\ (proc[1].pc = "writeUrl" /\ proc'[1].pc = "writeUpdatedAt")
           => sheet' = [sheet EXCEPT ![RowOf(sheet, proc[1].code)][ColUrl] = proc[1].url]
        /\ (proc[1].pc = "writeUpdatedAt" /\ proc'[1].pc = "writeUpdatedAt")
           => sheet' = sheet
        /\ (proc[1].pc = "writeUpdatedAt" /\ proc'[1].res = "Error")
           => /\ proc'[1].pc = "done"
              /\ ~Ok(proc'[1].val.status)
              /\ sheet' = sheet
              /\ \E i \in 1..Len(net'.log[1]) :
                   /\ net'.log[1][i].kind = "sheet"
                   /\ net'.log[1][i].at = "writeUrl"
                   /\ Ok(net'.log[1][i].status)]_vars

\* POST /shorten without a desired code is running or has ended
Generating == proc[1].op = "postShorten" /\ proc[1].generated

\* C27: in POST /shorten without a desired code, when an availability check
\* fails for a reason other than the candidate being taken, that failure ends
\* the request and no further availability check is issued for it.
C27_GenerationFailurePropagates ==
  (Generating /\ proc[1].failures > 0)
  => /\ proc[1].pc = "done"
     /\ proc[1].failures = 1
     /\ proc[1].res = "Error"

\* a bound on the steps the running request can still take: a request of an
\* operation is a token step or two and a fetch, createShortUrl is two
\* requests, and every availability check not accepted uses up an attempt
StepsLeft(c, phase) ==
  LET request == CASE phase = "token" -> 3 [] phase = "exchange" -> 2 [] OTHER -> 1
  IN CASE c.pc = "done" -> 0
       [] c.pc = "append" -> request
       [] c.pc = "scan" -> 3 + request
       [] c.pc = "assert" -> 6 + 4 * (8 - c.attempts) + request
       [] OTHER -> 6 + 4 * (8 - c.attempts) + 4

\* C28: POST /shorten without a desired code performs at most 8 availability
\* checks and at most one createShortUrl call and always terminates; it
\* answers 201 only with a code whose own availability check reported it
\* free, and answers 500 when 8 candidates in a row were not accepted.
C28_BoundedGeneration ==
  /\ [](Generating
        => /\ proc[1].checks <= 8
           /\ StepsLeft(proc[1], net.phase[1]) >= 0
           /\ (proc[1].pc = "done" /\ proc[1].attempts = 8)
              => /\ StatusOf(proc[1]) = 500
                 /\ ErrorTextOf(proc[1]) = "Failed to generate unique short code"
           /\ (proc[1].pc = "done" /\ StatusOf(proc[1]) = 201)
              => /\ proc[1].record.shortCode = proc[1].code
                 /\ proc[1].attempts < 8)
  /\ [][Generating
        => /\ (proc[1].pc = "assert" /\ proc'[1].pc = "scan")
              => /\ ~Includes(getAllShortCodes(sheet), proc[1].code)
                 /\ proc'[1].code = proc[1].code
                 /\ proc'[1].record.shortCode = proc[1].code
           /\ (proc[1].pc = "assert" /\ proc'[1].pc = "loop")
              => proc'[1].attempts = proc[1].attempts + 1
           /\ (proc[1].pc \in {"scan", "append"} /\ proc'[1].op = "postShorten")
              => /\ proc'[1].pc \in {"scan", "append", "done"}
                 /\ proc[1].pc = "append" => proc'[1].pc # "scan"
                 /\ proc'[1].record = proc[1].record
                 /\ proc'[1].code = proc[1].code
                 /\ proc'[1].checks = proc[1].checks
           /\ proc[1].pc # "done"
              => /\ ENABLED NextShorten
                 /\ StepsLeft(proc'[1], net'.phase[1])
                      < StepsLeft(proc[1], net.phase[1])]_vars

\* eight generated candidates were each reported taken, and the answer is 500
C28_Witness ==
  /\ Generating
  /\ proc[1].pc = "done"
  /\ proc[1].checks = 8
  /\ proc[1].failures = 0
  /\ StatusOf(proc[1]) = 500

\* every one of the six cells of the row holds text
RowIsWhole(row) == \A col \in 1..6 : row[col] # ""

\* C29: after any sequence of createShortUrl, updateDestination,
\* resolveAndIncrement and deleteShortUrl calls that do not overlap and all
\* complete, every sheet row below the header is either fully empty or holds
\* all six fields of one record.
C29_RowShape ==
  \A i \in 2..Len(sheet) : RowIsEmpty(sheet[i]) \/ RowIsWhole(sheet[i])

\* C30: a successful createShortUrl adds exactly one non-empty row, holding
\* the six fields of the record built by buildShortUrlRecord in columns A to
\* F with count 0, and changes no cell of any row that was non-empty before
\* the call.
C30_CreateOnlyAppends ==
  [][(calls' = calls + 1 /\ last'.op = "createShortUrl" /\ last'.res = "ok")
     => \E r \in 1..Len(sheet), url \in Urls :
          /\ RowIsEmpty(sheet[r])
          /\ sheet'[r][ColId] # ""
          /\ sheet' = [sheet EXCEPT ![r] = <<sheet'[r][ColId], url, last'.code,
                                            toISOString(now'), toISOString(now'),
                                            "0">>]]_vars

\* createShortUrl succeeded on a sheet with a cleared row above a record
C30_Witness ==
  /\ last.op = "createShortUrl"
  /\ last.res = "ok"
  /\ \E i, j, k \in 2..Len(sheet) :
       /\ i < j /\ j < k
       /\ RowIsEmpty(sheet[i])
       /\ RowIsWhole(sheet[j])
       /\ sheet[k][ColShortCode] = last.code
       /\ sheet[k][ColCount] = "0"

\* C31: when deleteShortUrl(code) overlaps with updateDestination(code, u)
\* or resolveAndIncrement(code) on the same live code, then once the delete
\* has succeeded and the other operation has finished, all six cells of the
\* deleted row are empty.
C31_DeleteNotUndone ==
  \A p, q \in Procs :
    (/\ proc[p].op = "deleteShortUrl"
     /\ proc[p].pc = "done"
     /\ proc[p].res = "ok"
     /\ proc[q].op \in {"updateDestination", "resolveAndIncrement"}
     /\ proc[q].code = proc[p].code
     /\ proc[q].pc = "done")
    => RowIsEmpty(sheet[proc[p].rowIndex])

\* C32: whenever findByShortCode returns a row and a rowNumber, sheet row
\* rowNumber is the row whose column-C cell equals the requested code, for
\* every sheet content including fully empty or malformed rows above it.
C32_ContextRowNumber ==
  \A code \in Codes :
    LET found == findByShortCode(sheet, code)
    IN found.found => sheet[found.rowNumber][ColShortCode] = code

\* the data PUT /api/shorten/:shortCodeInput hands to updateRow, and a count
UpdateData ==
  {[NoData EXCEPT !.url = <<url>>, !.updatedAt = <<toISOString(t)>>] :
     url \in Urls, t \in 1..MaxTime}
  \cup {[NoData EXCEPT !.count = <<1>>]}

\* the field of data that column col stores
FieldOf(data, col) ==
  CASE col = ColId -> data.id
    [] col = ColUrl -> data.url
    [] col = ColShortCode -> data.shortCode
    [] col = ColCreatedAt -> data.createdAt
    [] col = ColUpdatedAt -> data.updatedAt
    [] OTHER -> data.count

\* the columns of the fields present in data
GivenCols(data) == {col \in 1..6 : FieldOf(data, col) # <<>>}

\* C33: updateRow(rowNumber, data) changes only the cells of the fields
\* present in data, and every other cell keeps its previous value, whether
\* the preliminary read of the row is answered 2xx or not.
C33_UpdateRowFrame ==
  \A rowNumber \in 2..Len(sheet), data \in UpdateData, resGetOk, resOk \in BOOLEAN :
    LET after == updateRow(sheet, rowNumber, data, resGetOk, resOk).sheet
    IN \A i \in 1..Len(sheet), col \in 1..6 :
         (i # rowNumber \/ col \notin GivenCols(data))
         => after[i][col] = sheet[i][col]

\* the characters of a charset
CharsOf(charset) == {charset[k] : k \in 1..Len(charset)}

\* C34: for every positive integer length and every charset of at least 2
\* characters, generateShortCode returns a string of exactly length
\* characters, each taken from charset, calling randomInt exactly length
\* times; for a length that is not a positive integer or a charset shorter
\* than 2 it throws and returns no code.
C34_RandomCodeShape ==
  gen.fn = "generateShortCode"
  => /\ gen.randoms <= gen.length \/ gen.randoms = 0
     /\ gen.pc = "done"
        => IF gen.integer /\ gen.length >= 1 /\ Len(gen.charset) >= 2
           THEN /\ gen.res = "ok"
                /\ Len(gen.out) = gen.length
                /\ \A k \in 1..Len(gen.out) : gen.out[k] \in CharsOf(gen.charset)
                /\ gen.randoms = gen.length
           ELSE /\ gen.res \in {"LengthError", "CharsetError"}
                /\ gen.out = <<>>
                /\ gen.randoms = 0

\* a code of the greatest modelled length with two different characters
C34_Witness ==
  /\ gen.fn = "generateShortCode"
  /\ gen.pc = "done"
  /\ gen.res = "ok"
  /\ gen.length = MaxLength
  /\ gen.out[1] # gen.out[MaxLength]

\* C35: for every requested length >= 1 and every charset of at least 4
\* characters, hashShortCode returns a code of exactly the requested number
\* of characters, each taken from charset.
C35_DeterministicCodeLength ==
  (gen.fn = "hashShortCode" /\ gen.pc = "done"
     /\ gen.length >= 1 /\ Len(gen.charset) >= 4)
  => /\ gen.res = "ok"
     /\ Len(gen.val) = gen.length
     /\ gen.length <= MaxLength => gen.val \in Strings(gen.length, gen.charset)

\* the texts of letters, digits, underscore and hyphen among the modelled ones
WordTexts ==
  {Text(chars) : chars \in {c \in CodeTexts \cup GeneratedCodes :
                              \A k \in 1..Len(c) : c[k] \in WordChars}}

\* C36: every record appended through a shorten endpoint (POST /shorten of
\* the main app and POST /api/shorten), with a supplied or a generated
\* code, has a shortCode of at least 3 and at most 30 characters drawn from
\* letters, digits, underscore and hyphen.
C36_StoredCodeLength ==
  \A i \in 2..Len(sheet) :
    ~RowIsEmpty(sheet[i])
    => /\ Len(sheet[i][ColShortCode]) >= 3
       /\ Len(sheet[i][ColShortCode]) <= 30
       /\ sheet[i][ColShortCode] \in WordTexts

\* C37: for every maxExclusive >= 1, secureRandomInt returns an integer r
\* with 0 <= r < maxExclusive; it draws again only after a word that is not
\* below the limit, and it terminates provided the random source eventually
\* yields a word below the limit.
C37_RandomIntRangeAndTermination ==
  /\ []((gen.fn = "secureRandomInt" /\ gen.pc = "done")
        => /\ gen.res = "ok"
           /\ gen.val \in 0..(gen.n - 1))
  /\ [][(gen.fn = "secureRandomInt" /\ gen.pc = "draw")
        => IF gen'.word < gen.limit
           THEN gen'.pc = "done"
           ELSE /\ gen'.pc = "draw"
                /\ gen'.n = gen.n
                /\ gen'.limit = gen.limit]_vars
  /\ (gen.fn = "secureRandomInt") ~> (gen.pc = "done")

\* the greatest result of the greatest alphabet, returned after a rejected word
C37_Witness ==
  /\ gen.fn = "secureRandomInt"
  /\ gen.pc = "done"
  /\ gen.crypto
  /\ gen.redrawn
  /\ gen.n = MaxCharset
  /\ gen.val = MaxCharset - 1

====
